---- MODULE Spec2Model ----
(***************************************************************************)
(* The trading account ledger of accounts.py: an append-only log of        *)
(* transactions, the four mutation operations and the replay that derives  *)
(* cash and holdings as of a timestamp.                                    *)
(*                                                                         *)
(* Amounts, quantities and prices are Python floats in the source; the     *)
(* model uses integers (whole dollars, whole shares), on which float       *)
(* arithmetic is exact.  The timestamp of a record is an integer instant of *)
(* UTC.  An Optional[x] is the sequence <<>> (None) or <<x>>; a datetime    *)
(* argument is <<t>> when it carries tzinfo UTC and <<t, "naive">> when its *)
(* tzinfo is None, t being the reading of its clock fields.                *)
(***************************************************************************)
EXTENDS Integers, Sequences, FiniteSets, TLC

\* ---- bounds of the model ------------------------------------------------
MaxTime == 2      \* instants are 0..MaxTime
MaxLog == 3       \* calls are made while the log holds fewer records

\* ---- inputs the operations are tried with --------------------------------
Instants == 0..MaxTime
None == <<>>
Some(x) == <<x>>
Timestamps == {None} \cup {Some(t) : t \in Instants}
Naive(t) == <<t, "naive">>
NaiveTimestamps == {Naive(1)}
InitialDeposits == {-100, 0, 300}
Amounts == {-150, 0, 150, 500}
Quantities == {-1, 0, 1, 2}
Symbols == {"AAPL", "TSLA", "MSFT"}

VARIABLES
    account,          \* "None" until an Account object exists, then "Account"
    initial_deposit,  \* Account._initial_deposit
    transactions,     \* Account._transactions, in insertion order
    now,              \* the clock read by datetime.utcnow()
    last,             \* the last call: its arguments and what it raised
    before,           \* the log as it was when the last call started
    running           \* per thread, the call it is inside and that call's locals

vars == <<account, initial_deposit, transactions, now, last, before, running>>

\* ---- datetime: tzinfo and replace(tzinfo=timezone.utc) --------------------
tzinfo(dt) == IF Len(dt) = 2 THEN None ELSE Some("UTC")

\* the clock fields are kept, the timezone is set
replace_tzinfo_utc(dt) == <<dt[1]>>

\* if dt.tzinfo is None: dt = dt.replace(tzinfo=timezone.utc); the instant of
\* the result
as_utc(dt) == (IF tzinfo(dt) = None THEN replace_tzinfo_utc(dt) ELSE dt)[1]

\* ---- accounts.py: Transaction --------------------------------------------
Transaction(timestamp, type, symbol, quantity, price_per_share, total_amount) ==
    [timestamp |-> timestamp, type |-> type, symbol |-> symbol,
     quantity |-> quantity, price_per_share |-> price_per_share,
     total_amount |-> total_amount]

\* ---- accounts.py: get_share_price ----------------------------------------
prices == [s \in {"AAPL", "TSLA", "GOOGL"} |->
             CASE s = "AAPL" -> 150 [] s = "TSLA" -> 800 [] s = "GOOGL" -> 2800]

\* the mutant prices an unknown symbol at 0 instead of raising
get_share_price_default(symbol) ==
    IF symbol \notin DOMAIN prices
    THEN [raised |-> None, value |-> 0]
    ELSE [raised |-> None, value |-> prices[symbol]]

\* raised is None when the price is returned, else the name of the exception
get_share_price(symbol) ==
    IF symbol \notin DOMAIN prices
    THEN [raised |-> Some("InvalidSymbolError"), value |-> 0]
    ELSE [raised |-> None, value |-> prices[symbol]]

\* ---- accounts.py: Account._record_transaction ----------------------------
\* the mutant keeps the log ordered by timestamp instead of appending
RECURSIVE insert_by_timestamp(_, _)
insert_by_timestamp(txs, tx) ==
    IF txs = <<>> THEN <<tx>>
    ELSE IF txs[Len(txs)].timestamp <= tx.timestamp THEN Append(txs, tx)
    ELSE Append(insert_by_timestamp(SubSeq(txs, 1, Len(txs) - 1), tx), txs[Len(txs)])

record_transaction_ordered(txs, timestamp, type, symbol, quantity, price_per_share, total_amount) ==
    insert_by_timestamp(txs, Transaction(timestamp, type, symbol, quantity, price_per_share, total_amount))

\* the log after self._transactions.append(Transaction(...))
record_transaction(txs, timestamp, type, symbol, quantity, price_per_share, total_amount) ==
    Append(txs, Transaction(timestamp, type, symbol, quantity, price_per_share, total_amount))

\* ---- sorted(self._transactions, key=lambda t: t.timestamp) ---------------
\* Python's sort is stable: equal timestamps keep their insertion order.
unsorted(txs) == txs

RECURSIVE sort_stable(_)
sort_stable(txs) ==
    IF txs = <<>> THEN <<>>
    ELSE insert_by_timestamp(sort_stable(SubSeq(txs, 1, Len(txs) - 1)), txs[Len(txs)])

sorted_by_timestamp(txs) == sort_stable(txs)

\* ---- dict helpers ---------------------------------------------------------
\* holdings.get(symbol, 0.0)
dict_get(d, k) == IF k \in DOMAIN d THEN d[k] ELSE 0

\* holdings[k] = v
dict_set(d, k, v) == [x \in DOMAIN d \cup {k} |-> IF x = k THEN v ELSE d[x]]

\* ---- accounts.py: Account._apply_transactions_up_to ----------------------
\* the loop over the sorted log from position i on, with its break
RECURSIVE apply_loop(_, _, _, _, _)
apply_loop(s, i, up_to, cash, holdings) ==
    IF i > Len(s) THEN <<cash, holdings>>
    ELSE IF s[i].timestamp > up_to THEN <<cash, holdings>>
    ELSE apply_loop(s, i + 1, up_to, cash + s[i].total_amount,
                    IF s[i].type \in {"buy", "sell"} /\ s[i].symbol # None
                    THEN dict_set(holdings, s[i].symbol[1],
                                  dict_get(holdings, s[i].symbol[1]) + s[i].quantity)
                    ELSE holdings)

\* the mutant stops one record early: a cutoff that excludes its own instant
RECURSIVE apply_loop_exclusive(_, _, _, _, _)
apply_loop_exclusive(s, i, up_to, cash, holdings) ==
    IF i > Len(s) THEN <<cash, holdings>>
    ELSE IF s[i].timestamp >= up_to THEN <<cash, holdings>>
    ELSE apply_loop_exclusive(s, i + 1, up_to, cash + s[i].total_amount,
                    IF s[i].type \in {"buy", "sell"} /\ s[i].symbol # None
                    THEN dict_set(holdings, s[i].symbol[1],
                                  dict_get(holdings, s[i].symbol[1]) + s[i].quantity)
                    ELSE holdings)

apply_transactions_exclusive(txs, up_to) ==
    apply_loop_exclusive(sorted_by_timestamp(txs), 1, up_to, 0, <<>>)

\* returns the tuple (cash, holdings)
apply_transactions_up_to(txs, up_to) ==
    apply_loop(sorted_by_timestamp(txs), 1, up_to, 0, <<>>)

\* ---- accounts.py: Account._latest_timestamp ------------------------------
\* the mutant takes the timestamp of the record inserted last
latest_timestamp_last_inserted(txs) == txs[Len(txs)].timestamp

\* max(tx.timestamp for tx in self._transactions)
latest_timestamp(txs) ==
    CHOOSE t \in {txs[i].timestamp : i \in 1..Len(txs)} :
        \A i \in 1..Len(txs) : txs[i].timestamp <= t

\* ---- accounts.py: queries -------------------------------------------------
\* as_of is an Optional datetime; _apply_transactions_up_to takes it as UTC
cash_balance(txs, as_of) ==
    LET ts == IF as_of # None THEN as_utc(as_of) ELSE latest_timestamp(txs)
    IN apply_transactions_up_to(txs, ts)[1]

holdings_of(txs, as_of) ==
    LET ts == IF as_of # None THEN as_utc(as_of) ELSE latest_timestamp(txs)
        h == apply_transactions_up_to(txs, ts)[2]
    IN [sym \in {s \in DOMAIN h : h[s] # 0} |-> h[sym]]

\* ---- accounts.py: Account.portfolio_value ---------------------------------
\* the loop over holdings.items(): the market value of the symbols in syms
RECURSIVE market_value(_, _)
market_value(holdings, syms) ==
    IF syms = {} THEN 0
    ELSE LET symbol == CHOOSE x \in syms : TRUE
             qty == holdings[symbol]
         IN (IF qty = 0 THEN 0 ELSE qty * get_share_price(symbol).value)
            + market_value(holdings, syms \ {symbol})

\* the mutant values the account as of its latest record, whatever as_of is
portfolio_value_latest(txs, as_of) ==
    LET applied == apply_transactions_up_to(txs, latest_timestamp(txs))
    IN applied[1] + market_value(applied[2], DOMAIN applied[2])

portfolio_value(txs, as_of) ==
    LET ts == IF as_of # None THEN as_utc(as_of) ELSE latest_timestamp(txs)
        applied == apply_transactions_up_to(txs, ts)
    IN applied[1] + market_value(applied[2], DOMAIN applied[2])

\* ---- accounts.py: Account.profit_loss -------------------------------------
\* the sum of the deposits recorded in txs
RECURSIVE deposits_total(_)
deposits_total(txs) ==
    IF txs = <<>> THEN 0
    ELSE deposits_total(SubSeq(txs, 1, Len(txs) - 1))
         + (IF txs[Len(txs)].type = "deposit" THEN txs[Len(txs)].total_amount ELSE 0)

\* the mutant takes every deposit, not the initial one alone, as the baseline
profit_loss_net_of_deposits(txs, baseline, as_of) ==
    portfolio_value(txs, as_of) - deposits_total(txs)

\* baseline is self._initial_deposit
profit_loss(txs, baseline, as_of) ==
    portfolio_value(txs, as_of) - baseline

\* ---- accounts.py: Account.transaction_history -----------------------------
\* the loop over self._transactions from position i on
RECURSIVE history_loop(_, _, _, _, _)
history_loop(txs, i, since, until, result) ==
    IF i > Len(txs) THEN result
    ELSE IF since # None /\ txs[i].timestamp < since[1]
    THEN history_loop(txs, i + 1, since, until, result)
    ELSE IF until # None /\ txs[i].timestamp > until[1]
    THEN history_loop(txs, i + 1, since, until, result)
    ELSE history_loop(txs, i + 1, since, until, Append(result, txs[i]))

\* whether the loop raises TypeError: Python refuses to order the aware
\* tx.timestamp against a bound whose tzinfo is None, and the method sets no
\* timezone on since or until
RECURSIVE history_loop_raises(_, _, _, _)
history_loop_raises(txs, i, since, until) ==
    IF i > Len(txs) THEN FALSE
    ELSE IF since # None /\ tzinfo(since) = None THEN TRUE
    ELSE IF since # None /\ txs[i].timestamp < since[1]
    THEN history_loop_raises(txs, i + 1, since, until)
    ELSE IF until # None /\ tzinfo(until) = None THEN TRUE
    ELSE history_loop_raises(txs, i + 1, since, until)

\* the mutant returns the selected records in timestamp order
transaction_history_sorted(txs, since, until) ==
    sort_stable(history_loop(txs, 1, since, until, <<>>))

transaction_history(txs, since, until) ==
    history_loop(txs, 1, since, until, <<>>)

\* ---- the record of a call -------------------------------------------------
Call(op, amount, symbol, timestamp, ts, raised) ==
    [op |-> op, amount |-> amount, symbol |-> symbol, timestamp |-> timestamp,
     ts |-> ts, raised |-> raised]

\* the call raised: nothing after the raise statement runs
Raises(op, amount, symbol, timestamp, ts, exception) ==
    /\ last' = Call(op, amount, symbol, timestamp, ts, Some(exception))
    /\ before' = transactions
    /\ UNCHANGED <<account, initial_deposit, transactions, now, running>>

\* the call returned, leaving the log as txs
Returns(op, amount, symbol, timestamp, ts, txs) ==
    /\ last' = Call(op, amount, symbol, timestamp, ts, None)
    /\ before' = transactions
    /\ transactions' = txs
    /\ UNCHANGED <<account, initial_deposit, now, running>>

\* timestamp or datetime.utcnow().replace(tzinfo=timezone.utc), as the instant
\* _apply_transactions_up_to and _record_transaction take it for
effective(timestamp) == IF timestamp # None THEN as_utc(timestamp) ELSE now

\* ---- app.py: the threads the handlers run on -----------------------------
Threads == {1, 2}
NotRunning == [pc |-> "idle"]

Init ==
    /\ account = "None"
    /\ initial_deposit = 0
    /\ transactions = <<>>
    /\ now = 0
    /\ last = Call("none", 0, None, None, 0, None)
    /\ before = <<>>
    /\ running = [th \in Threads |-> NotRunning]

Queries == {"cash_balance", "holdings", "portfolio_value", "profit_loss",
            "transaction_history"}

\* the last call is over for its caller: it was a mutation that returned, or its
\* exception or the value it returned has been dealt with
Idle == last.raised = None /\ last.op \notin Queries

\* ---- app.py: the except clauses of the callers ---------------------------
\* the caller catches the exception and returns its message, or shows the value
\* a query returned; the account is as the call left it
Handled ==
    /\ ~Idle
    /\ last' = Call("none", 0, None, None, 0, None)
    /\ UNCHANGED <<account, initial_deposit, transactions, now, before, running>>

\* the clock advances between calls
Tick ==
    /\ Idle
    /\ now < MaxTime
    /\ now' = now + 1
    /\ UNCHANGED <<account, initial_deposit, transactions, last, before, running>>

\* ---- accounts.py: Account.__init__ ---------------------------------------
\* the mutant rejects a negative initial deposit only
init_accepts_zero(deposit_amount) ==
    /\ account = "None"
    /\ Idle
    /\ last' = Call("init", deposit_amount, None, None, now,
                    IF deposit_amount < 0 THEN Some("ValueError") ELSE None)
    /\ before' = transactions
    /\ UNCHANGED running
    /\ IF deposit_amount < 0
       THEN UNCHANGED <<account, initial_deposit, transactions, now>>
       ELSE /\ account' = "Account"
            /\ initial_deposit' = deposit_amount
            /\ transactions' = record_transaction(<<>>, now, "deposit", None, 0, None,
                                                  deposit_amount)
            /\ UNCHANGED now

init(deposit_amount) ==
    /\ account = "None"
    /\ Idle
    /\ last' = Call("init", deposit_amount, None, None, now,
                    IF deposit_amount <= 0 THEN Some("ValueError") ELSE None)
    /\ before' = transactions
    /\ UNCHANGED running
    /\ IF deposit_amount <= 0
       THEN UNCHANGED <<account, initial_deposit, transactions, now>>
       ELSE /\ account' = "Account"
            /\ initial_deposit' = deposit_amount
            /\ transactions' = record_transaction(<<>>, now, "deposit", None, 0, None,
                                                  deposit_amount)
            /\ UNCHANGED now

\* calls are made one at a time, on an existing account whose log is below the
\* bound
Callable == account = "Account" /\ Idle /\ Len(transactions) < MaxLog

\* ---- accounts.py: Account.deposit ----------------------------------------
\* the mutant rejects negative amounts only
deposit_accepts_zero(amount, timestamp) ==
    /\ Callable
    /\ LET ts == effective(timestamp)
       IN IF amount < 0
          THEN Raises("deposit", amount, None, timestamp, ts, "ValueError")
          ELSE Returns("deposit", amount, None, timestamp, ts,
                       record_transaction(transactions, ts, "deposit", None, 0, None, amount))

deposit(amount, timestamp) ==
    /\ Callable
    /\ LET ts == effective(timestamp)
       IN IF amount <= 0
          THEN Raises("deposit", amount, None, timestamp, ts, "ValueError")
          ELSE Returns("deposit", amount, None, timestamp, ts,
                       record_transaction(transactions, ts, "deposit", None, 0, None, amount))

\* ---- accounts.py: Account.withdraw (the definition in force, line 231) --
\* the mutant records the withdrawal before it checks the cash
withdraw_append_first(amount, timestamp) ==
    /\ Callable
    /\ LET ts == effective(timestamp)
           cash_before == apply_transactions_up_to(transactions, ts)[1]
       IN IF amount <= 0
          THEN Raises("withdraw", amount, None, timestamp, ts, "ValueError")
          ELSE IF cash_before < amount
          THEN /\ last' = Call("withdraw", amount, None, timestamp, ts,
                               Some("InsufficientFundsError"))
               /\ before' = transactions
               /\ transactions' = record_transaction(transactions, ts, "withdraw", None, 0,
                                                     None, -amount)
               /\ UNCHANGED <<account, initial_deposit, now, running>>
          ELSE Returns("withdraw", amount, None, timestamp, ts,
                       record_transaction(transactions, ts, "withdraw", None, 0, None, -amount))

\* the mutant refuses a withdrawal of the whole balance
withdraw_strict(amount, timestamp) ==
    /\ Callable
    /\ LET ts == effective(timestamp)
           cash_before == apply_transactions_up_to(transactions, ts)[1]
       IN IF amount <= 0
          THEN Raises("withdraw", amount, None, timestamp, ts, "ValueError")
          ELSE IF cash_before <= amount
          THEN Raises("withdraw", amount, None, timestamp, ts, "InsufficientFundsError")
          ELSE Returns("withdraw", amount, None, timestamp, ts,
                       record_transaction(transactions, ts, "withdraw", None, 0, None, -amount))

withdraw(amount, timestamp) ==
    /\ Callable
    /\ LET ts == effective(timestamp)
           cash_before == apply_transactions_up_to(transactions, ts)[1]
       IN IF amount <= 0
          THEN Raises("withdraw", amount, None, timestamp, ts, "ValueError")
          ELSE IF cash_before < amount
          THEN Raises("withdraw", amount, None, timestamp, ts, "InsufficientFundsError")
          ELSE Returns("withdraw", amount, None, timestamp, ts,
                       record_transaction(transactions, ts, "withdraw", None, 0, None, -amount))

\* ---- accounts.py: Account.buy (the definition in force, line 248) --------
\* the mutant looks the price up before it checks the quantity
buy_lookup_first(symbol, quantity, timestamp) ==
    /\ Callable
    /\ LET ts == effective(timestamp)
           price == get_share_price(symbol)
           cost == price.value * quantity
           cash_before == apply_transactions_up_to(transactions, ts)[1]
       IN IF price.raised # None
          THEN Raises("buy", quantity, Some(symbol), timestamp, ts, price.raised[1])
          ELSE IF quantity <= 0
          THEN Raises("buy", quantity, Some(symbol), timestamp, ts, "InvalidQuantityError")
          ELSE IF cash_before < cost
          THEN Raises("buy", quantity, Some(symbol), timestamp, ts, "InsufficientFundsError")
          ELSE Returns("buy", quantity, Some(symbol), timestamp, ts,
                       record_transaction(transactions, ts, "buy", Some(symbol), quantity,
                                          Some(price.value), -cost))

\* the mutant records the cost as a positive total amount
buy_credits_cost(symbol, quantity, timestamp) ==
    /\ Callable
    /\ LET ts == effective(timestamp)
           price == get_share_price(symbol)
           cost == price.value * quantity
           cash_before == apply_transactions_up_to(transactions, ts)[1]
       IN IF quantity <= 0
          THEN Raises("buy", quantity, Some(symbol), timestamp, ts, "InvalidQuantityError")
          ELSE IF price.raised # None
          THEN Raises("buy", quantity, Some(symbol), timestamp, ts, price.raised[1])
          ELSE IF cash_before < cost
          THEN Raises("buy", quantity, Some(symbol), timestamp, ts, "InsufficientFundsError")
          ELSE Returns("buy", quantity, Some(symbol), timestamp, ts,
                       record_transaction(transactions, ts, "buy", Some(symbol), quantity,
                                          Some(price.value), cost))

\* the mutant records the purchase without checking the cash
buy_unchecked(symbol, quantity, timestamp) ==
    /\ Callable
    /\ LET ts == effective(timestamp)
           price == get_share_price(symbol)
           cost == price.value * quantity
       IN IF quantity <= 0
          THEN Raises("buy", quantity, Some(symbol), timestamp, ts, "InvalidQuantityError")
          ELSE IF price.raised # None
          THEN Raises("buy", quantity, Some(symbol), timestamp, ts, price.raised[1])
          ELSE Returns("buy", quantity, Some(symbol), timestamp, ts,
                       record_transaction(transactions, ts, "buy", Some(symbol), quantity,
                                          Some(price.value), -cost))

buy(symbol, quantity, timestamp) ==
    /\ Callable
    /\ LET ts == effective(timestamp)
           price == get_share_price(symbol)
           cost == price.value * quantity
           cash_before == apply_transactions_up_to(transactions, ts)[1]
       IN IF quantity <= 0
          THEN Raises("buy", quantity, Some(symbol), timestamp, ts, "InvalidQuantityError")
          ELSE IF price.raised # None
          THEN Raises("buy", quantity, Some(symbol), timestamp, ts, price.raised[1])
          ELSE IF cash_before < cost
          THEN Raises("buy", quantity, Some(symbol), timestamp, ts, "InsufficientFundsError")
          ELSE Returns("buy", quantity, Some(symbol), timestamp, ts,
                       record_transaction(transactions, ts, "buy", Some(symbol), quantity,
                                          Some(price.value), -cost))

\* ---- accounts.py: Account.sell (the definition in force, line 271) -------
\* Line 280 unpacks the tuple (cash, holdings) as `holdings_before, _`, so
\* holdings_before is the cash, a float, and line 281's holdings_before.get
\* raises AttributeError: no call with quantity > 0 gets past line 281.
sell(symbol, quantity, timestamp) ==
    /\ Callable
    /\ LET ts == effective(timestamp)
           holdings_before == apply_transactions_up_to(transactions, ts)[1]
       IN IF quantity <= 0
          THEN Raises("sell", quantity, Some(symbol), timestamp, ts, "InvalidQuantityError")
          ELSE Raises("sell", quantity, Some(symbol), timestamp, ts, "AttributeError")

\* ---- accounts.py: the queries, as calls -----------------------------------
\* sorted(self._transactions, ...) in _apply_transactions_up_to (line 177)
\* builds a new list; the mutant sorts self._transactions itself
log_after_sort_in_place(txs) == sort_stable(txs)

\* self._transactions after the replay

log_after_sorted(txs) == txs

\* a query is called on an existing account, once the call before it is over
QueryCallable == account = "Account" /\ Idle

\* the query that replays up to as_of returns
Replays(op, as_of) ==
    /\ last' = Call(op, 0, None, as_of,
                    IF as_of # None THEN as_utc(as_of) ELSE latest_timestamp(transactions),
                    None)
    /\ before' = transactions
    /\ transactions' = log_after_sorted(transactions)
    /\ UNCHANGED <<account, initial_deposit, now, running>>

call_cash_balance(as_of) ==
    /\ QueryCallable
    /\ Replays("cash_balance", as_of)

call_holdings(as_of) ==
    /\ QueryCallable
    /\ Replays("holdings", as_of)

call_portfolio_value(as_of) ==
    /\ QueryCallable
    /\ Replays("portfolio_value", as_of)

call_profit_loss(as_of) ==
    /\ QueryCallable
    /\ Replays("profit_loss", as_of)

\* the record of the call keeps the two bounds as the pair <<since, until>>
call_transaction_history(since, until) ==
    /\ QueryCallable
    /\ last' = Call("transaction_history", 0, None, <<since, until>>, 0,
                    IF history_loop_raises(transactions, 1, since, until)
                    THEN Some("TypeError") ELSE None)
    /\ before' = transactions
    /\ UNCHANGED <<account, initial_deposit, transactions, now, running>>

Next ==
    \/ Tick
    \/ Handled
    \/ \E d \in InitialDeposits : init(d)
    \/ \E a \in Amounts, t \in Timestamps : deposit(a, t)
    \/ \E a \in Amounts, t \in Timestamps : withdraw(a, t)
    \/ \E s \in Symbols, q \in Quantities, t \in Timestamps : buy(s, q, t)
    \/ \E s \in Symbols, q \in Quantities, t \in Timestamps : sell(s, q, t)

Spec == Init /\ [][Next]_vars

\* ---- a caller that reads the account and passes datetimes without tzinfo ---
CallerTimestamps == {None} \cup NaiveTimestamps
Cutoffs == {None, Some(1)} \cup NaiveTimestamps

NextReads ==
    \/ Tick
    \/ Handled
    \/ \E d \in InitialDeposits : init(d)
    \/ \E a \in Amounts, t \in CallerTimestamps : deposit(a, t)
    \/ \E a \in Amounts, t \in CallerTimestamps : withdraw(a, t)
    \/ \E s \in Symbols, q \in Quantities, t \in CallerTimestamps : buy(s, q, t)
    \/ \E s \in Symbols, q \in Quantities, t \in CallerTimestamps : sell(s, q, t)
    \/ \E as_of \in Cutoffs : call_cash_balance(as_of)
    \/ \E as_of \in Cutoffs : call_holdings(as_of)
    \/ \E as_of \in Cutoffs : call_portfolio_value(as_of)
    \/ \E as_of \in Cutoffs : call_profit_loss(as_of)
    \/ \E since, until \in Cutoffs : call_transaction_history(since, until)

SpecReads == Init /\ [][NextReads]_vars

(***************************************************************************)
(* Two handler threads on the one global account (app.py).  Account takes  *)
(* no lock, so a thread can be suspended between the statements of a        *)
(* method: between the replay that reads the log (line 236, line 259) and   *)
(* the append that writes it (line 239, line 262).  The handlers pass no    *)
(* timestamp, so ts is the clock as read when the call starts.              *)
(***************************************************************************)
\* the locals of a call suspended after its replay
Replayed(op, symbol, quantity, price, amount, ts, cash_before) ==
    [pc |-> "replayed", op |-> op, symbol |-> symbol, quantity |-> quantity,
     price |-> price, amount |-> amount, ts |-> ts, cash_before |-> cash_before]

\* the thread's call is over: it raised, or it returned leaving the log as txs
ThreadEnds(th, op, amount, symbol, ts, raised, txs) ==
    /\ last' = Call(op, amount, symbol, None, ts, raised)
    /\ before' = transactions
    /\ transactions' = txs
    /\ running' = [running EXCEPT ![th] = NotRunning]
    /\ UNCHANGED <<account, initial_deposit, now>>

ThreadCallable(th) ==
    account = "Account" /\ running[th].pc = "idle" /\ Len(transactions) < MaxLog

\* accounts.py lines 231-236: the argument check, the clock, the replay
thread_withdraw_replay(th, amount) ==
    /\ ThreadCallable(th)
    /\ IF amount <= 0
       THEN ThreadEnds(th, "withdraw", amount, None, now, Some("ValueError"), transactions)
       ELSE /\ running' = [running EXCEPT ![th] =
                   Replayed("withdraw", None, 0, None, amount, now,
                            apply_transactions_up_to(transactions, now)[1])]
            /\ UNCHANGED <<account, initial_deposit, transactions, now, last, before>>

\* accounts.py lines 237-246: the funds check on the cash replayed, the append
thread_withdraw_append(th) ==
    /\ running[th].pc = "replayed" /\ running[th].op = "withdraw"
    /\ LET call == running[th]
       IN IF call.cash_before < call.amount
          THEN ThreadEnds(th, "withdraw", call.amount, None, call.ts,
                          Some("InsufficientFundsError"), transactions)
          ELSE ThreadEnds(th, "withdraw", call.amount, None, call.ts, None,
                          record_transaction(transactions, call.ts, "withdraw", None, 0,
                                             None, -call.amount))

\* accounts.py lines 248-259: the argument check, the clock, the price, the replay
thread_buy_replay(th, symbol, quantity) ==
    /\ ThreadCallable(th)
    /\ LET price == get_share_price(symbol)
       IN IF quantity <= 0
          THEN ThreadEnds(th, "buy", quantity, Some(symbol), now,
                          Some("InvalidQuantityError"), transactions)
          ELSE IF price.raised # None
          THEN ThreadEnds(th, "buy", quantity, Some(symbol), now, price.raised, transactions)
          ELSE /\ running' = [running EXCEPT ![th] =
                      Replayed("buy", Some(symbol), quantity, Some(price.value),
                               price.value * quantity, now,
                               apply_transactions_up_to(transactions, now)[1])]
               /\ UNCHANGED <<account, initial_deposit, transactions, now, last, before>>

\* accounts.py lines 260-269: the funds check on the cash replayed, the append
thread_buy_append(th) ==
    /\ running[th].pc = "replayed" /\ running[th].op = "buy"
    /\ LET call == running[th]
       IN IF call.cash_before < call.amount
          THEN ThreadEnds(th, "buy", call.quantity, call.symbol, call.ts,
                          Some("InsufficientFundsError"), transactions)
          ELSE ThreadEnds(th, "buy", call.quantity, call.symbol, call.ts, None,
                          record_transaction(transactions, call.ts, "buy", call.symbol,
                                             call.quantity, call.price, -call.amount))

\* accounts.py lines 271-281: sell raises right after its replay (see sell),
\* so it has no append another thread could come before
thread_sell(th, symbol, quantity) ==
    /\ ThreadCallable(th)
    /\ IF quantity <= 0
       THEN ThreadEnds(th, "sell", quantity, Some(symbol), now,
                       Some("InvalidQuantityError"), transactions)
       ELSE ThreadEnds(th, "sell", quantity, Some(symbol), now,
                       Some("AttributeError"), transactions)

NextConcurrent ==
    \/ Tick
    \/ Handled
    \/ \E d \in InitialDeposits : init(d)
    \/ \E th \in Threads, a \in Amounts : thread_withdraw_replay(th, a)
    \/ \E th \in Threads : thread_withdraw_append(th)
    \/ \E th \in Threads, s \in Symbols, q \in Quantities : thread_buy_replay(th, s, q)
    \/ \E th \in Threads : thread_buy_append(th)
    \/ \E th \in Threads, s \in Symbols, q \in Quantities : thread_sell(th, s, q)

SpecConcurrent == Init /\ [][NextConcurrent]_vars

(***************************************************************************)
(* Reference definitions the properties are stated with: sums over the log *)
(* in insertion order, without sorting.                                    *)
(***************************************************************************)
RECURSIVE SumTotal(_, _)
SumTotal(txs, T) ==
    IF txs = <<>> THEN 0
    ELSE SumTotal(SubSeq(txs, 1, Len(txs) - 1), T)
         + (IF txs[Len(txs)].timestamp <= T THEN txs[Len(txs)].total_amount ELSE 0)

RECURSIVE SumQuantity(_, _, _)
SumQuantity(txs, sym, T) ==
    IF txs = <<>> THEN 0
    ELSE SumQuantity(SubSeq(txs, 1, Len(txs) - 1), sym, T)
         + (IF /\ txs[Len(txs)].timestamp <= T
               /\ txs[Len(txs)].type \in {"buy", "sell"}
               /\ txs[Len(txs)].symbol = Some(sym)
            THEN txs[Len(txs)].quantity ELSE 0)

Exists == account = "Account"
Mutations == {"deposit", "withdraw", "buy", "sell"}
Succeeded == last.op \in Mutations /\ last.raised = None
Failed == last.op \in Mutations /\ last.raised # None
\* some record was inserted with a timestamp earlier than one already recorded
OutOfOrder ==
    \E i, j \in 1..Len(transactions) :
        i < j /\ transactions[i].timestamp > transactions[j].timestamp
AllSymbols == Symbols \cup DOMAIN prices

\* C1: the replayed cash is non-negative as of the timestamp of every accepted
\* withdraw and every accepted buy in the log, out-of-order inserts included.
C1_CashNonNegativeAtDebits ==
    \A i \in 1..Len(transactions) :
        transactions[i].type \in {"withdraw", "buy"}
            => cash_balance(transactions, Some(transactions[i].timestamp)) >= 0

\* C2: the replayed holdings of every symbol are non-negative as of the
\* timestamp of every accepted sell in the log.  No call of sell gets past
\* line 281, so no log the program builds holds a sell record (NoSellRecorded)
\* and the property has no case to be checked on.
C2_HoldingsNonNegativeAtSells ==
    \A i \in 1..Len(transactions) :
        transactions[i].type = "sell"
            => \A s \in AllSymbols :
                  SumQuantity(transactions, s, transactions[i].timestamp) >= 0

NoSellRecorded == \A i \in 1..Len(transactions) : transactions[i].type # "sell"

\* C3: for every cutoff T, cash_balance(as_of=T) is the sum of total_amount over
\* the recorded transactions with timestamp <= T, whatever the insertion order.
C3_CashIsSumUpToCutoff ==
    Exists => \A T \in Instants :
                  cash_balance(transactions, Some(T)) = SumTotal(transactions, T)

\* three records inserted out of timestamp order, a cutoff before all of them
\* (cash 0) and a cutoff that takes some but not all of them
C3_Witness ==
    /\ Exists /\ OutOfOrder /\ Len(transactions) = MaxLog
    /\ \E T0, T1 \in Instants :
          /\ \A i \in 1..Len(transactions) : transactions[i].timestamp > T0
          /\ cash_balance(transactions, Some(T0)) = 0
          /\ \E i, j \in 1..Len(transactions) :
                transactions[i].timestamp <= T1 /\ transactions[j].timestamp > T1
          /\ cash_balance(transactions, Some(T1)) = SumTotal(transactions, T1)
          /\ cash_balance(transactions, Some(T1)) # SumTotal(transactions, MaxTime)

\* C4: for every cutoff T and symbol s, holdings(as_of=T) maps s to the sum of
\* the signed quantities of the buys and sells of s with timestamp <= T, and s
\* is absent exactly when that sum is zero.
C4_HoldingsAreSumUpToCutoff ==
    Exists => \A T \in Instants :
                  LET h == holdings_of(transactions, Some(T))
                  IN /\ DOMAIN h \subseteq AllSymbols
                     /\ \A s \in AllSymbols :
                           /\ (s \in DOMAIN h) <=> (SumQuantity(transactions, s, T) # 0)
                           /\ s \in DOMAIN h => h[s] = SumQuantity(transactions, s, T)

\* a symbol absent at one cutoff, held once at a later one and twice at the last
C4_Witness ==
    /\ Exists
    /\ \E s \in Symbols, T0, T1, T2 \in Instants :
          /\ T0 < T1 /\ T1 < T2
          /\ s \notin DOMAIN holdings_of(transactions, Some(T0))
          /\ s \in DOMAIN holdings_of(transactions, Some(T1))
          /\ holdings_of(transactions, Some(T1))[s] = 1
          /\ s \in DOMAIN holdings_of(transactions, Some(T2))
          /\ holdings_of(transactions, Some(T2))[s] = 2

\* C5: sell(symbol, quantity, timestamp) with quantity > 0 and replayed holdings
\* of symbol as of the effective timestamp >= quantity succeeds and appends
\* exactly one sell record with quantity -quantity and total_amount
\* +price*quantity.
C5_SellSucceeds ==
    (/\ last.op = "sell" /\ last.amount > 0
     /\ SumQuantity(before, last.symbol[1], last.ts) >= last.amount)
        => /\ last.raised = None
           /\ transactions =
                Append(before,
                       Transaction(last.ts, "sell", last.symbol, -last.amount,
                                   Some(prices[last.symbol[1]]),
                                   prices[last.symbol[1]] * last.amount))

\* C6: sell with quantity > 0 fails with InsufficientHoldingsError, and no other
\* error, whenever the replayed holdings of symbol as of the effective timestamp
\* are less than quantity, and the log is unchanged.
C6_SellInsufficientHoldings ==
    (/\ last.op = "sell" /\ last.amount > 0
     /\ SumQuantity(before, last.symbol[1], last.ts) < last.amount)
        => /\ last.raised = Some("InsufficientHoldingsError")
           /\ transactions = before

\* C7: withdraw(amount) with amount > 0 fails with InsufficientFundsError exactly
\* when the cash replayed up to and including the effective timestamp is below
\* amount, buy of a known symbol with q > 0 exactly when it is below price*q;
\* otherwise (equality included) the call succeeds and the replayed cash as of
\* its effective timestamp is not negative once it is recorded.
C7_FundsCheck ==
    LET cash == SumTotal(before, last.ts)
        needed == IF last.op = "buy" THEN prices[last.symbol[1]] * last.amount
                  ELSE last.amount
    IN (/\ last.op \in {"withdraw", "buy"} /\ last.amount > 0
        /\ last.op = "buy" => last.symbol[1] \in DOMAIN prices)
          => /\ (last.raised = Some("InsufficientFundsError")) <=> (cash < needed)
             /\ cash >= needed
                  => /\ last.raised = None
                     /\ cash_balance(transactions, Some(last.ts)) = cash - needed
                     /\ cash_balance(transactions, Some(last.ts)) >= 0

\* a withdrawal of exactly the cash left after an accepted buy
C7_Witness ==
    /\ Succeeded
    /\ last.op = "withdraw"
    /\ last.amount = SumTotal(before, last.ts)
    /\ \E i \in 1..Len(before) : before[i].type = "buy"
    /\ cash_balance(transactions, Some(last.ts)) = 0

\* C8: a deposit, withdraw, buy or sell call that fails leaves the transaction
\* log (and the baseline) exactly as it was before the call.
C8_FailedCallLeavesLog ==
    [][(last'.op \in Mutations /\ last'.raised # None)
          => /\ transactions' = transactions
             /\ initial_deposit' = initial_deposit
             /\ \A T \in Instants :
                   cash_balance(transactions', Some(T)) = cash_balance(transactions, Some(T))]_vars

\* cash 150, a withdrawal of 500 fails with InsufficientFundsError, cash is 150
C8_Witness ==
    /\ last.op = "withdraw"
    /\ last.amount = 500
    /\ last.raised = Some("InsufficientFundsError")
    /\ transactions = before
    /\ cash_balance(transactions, None) = 150

\* C9: the log is append-only: a successful deposit, withdraw or buy extends
\* it by exactly one record placed at the end, the previous log is a prefix of
\* the new one, and the first record stays the initial deposit of construction.
C9_AppendOnly ==
    [][/\ \/ transactions' = transactions
          \/ /\ Len(transactions') = Len(transactions) + 1
             /\ SubSeq(transactions', 1, Len(transactions)) = transactions
       /\ (last'.op \in Mutations /\ last'.raised = None)
             => /\ Len(transactions') = Len(before') + 1
                /\ SubSeq(transactions', 1, Len(before')) = before'
                /\ transactions'[Len(transactions')].type = last'.op
                /\ transactions'[Len(transactions')].timestamp = last'.ts
       /\ account' = "Account"
             => /\ transactions'[1].type = "deposit"
                /\ transactions'[1].total_amount = initial_deposit'
                /\ account = "Account" => transactions'[1] = transactions[1]]_vars

\* a record was appended with a timestamp earlier than the one before it
C9_Witness ==
    /\ Succeeded
    /\ Len(transactions) = MaxLog
    /\ transactions[Len(transactions)].timestamp
          < transactions[Len(transactions) - 1].timestamp

C13_UnknownSymbol ==
    (last.op = "buy" /\ last.amount > 0 /\ last.symbol[1] \notin DOMAIN prices)
        => /\ last.raised = Some("InvalidSymbolError")
           /\ transactions = before

\* an unknown symbol was refused as such both with no cash at the effective
\* timestamp and with cash in the account
C13_Witness ==
    /\ last.op = "buy" /\ last.amount > 0
    /\ last.symbol[1] \notin DOMAIN prices
    /\ last.raised = Some("InvalidSymbolError")
    /\ SumTotal(before, last.ts) = 0
    /\ cash_balance(before, None) > 0

\* C14: non-positive arguments are rejected before any other check: deposit
\* and withdraw with amount <= 0 raise ValueError, buy and sell with q <= 0
\* raise InvalidQuantityError whatever the symbol, funds or holdings are; a
\* deposit with amount > 0 always succeeds and appends a deposit of +amount.
C14_ArgumentChecksFirst ==
    /\ (last.op \in {"deposit", "withdraw"} /\ last.amount <= 0)
          => last.raised = Some("ValueError") /\ transactions = before
    /\ (last.op \in {"buy", "sell"} /\ last.amount <= 0)
          => last.raised = Some("InvalidQuantityError") /\ transactions = before
    /\ (last.op = "deposit" /\ last.amount > 0)
          => /\ last.raised = None
             /\ transactions =
                  Append(before,
                         Transaction(last.ts, "deposit", None, 0, None, last.amount))

\* a buy of 0 shares of an unknown symbol, with no cash at the effective
\* timestamp, was refused for its quantity
C14_Witness ==
    /\ last.op = "buy" /\ last.amount = 0
    /\ last.symbol[1] \notin DOMAIN prices
    /\ SumTotal(before, last.ts) = 0
    /\ last.raised = Some("InvalidQuantityError")

C16_InitialDepositAtAnyTimestamp ==
    (Exists /\ Len(before) = 1 /\ last.timestamp # None /\ last.amount > 0)
        => /\ (last.op = "withdraw" /\ last.amount <= initial_deposit)
                 => /\ last.raised = None
                    /\ cash_balance(transactions, last.timestamp)
                          = initial_deposit - last.amount
           /\ (/\ last.op = "buy" /\ last.symbol[1] \in DOMAIN prices
               /\ prices[last.symbol[1]] * last.amount <= initial_deposit)
                 => /\ last.raised = None
                    /\ cash_balance(transactions, None)
                          = initial_deposit - prices[last.symbol[1]] * last.amount
                    /\ holdings_of(transactions, None)
                          = [x \in {last.symbol[1]} |-> last.amount]

\* the records of txs whose timestamp lies within the optional bounds
InBounds(tx, since, until) ==
    /\ since # None => since[1] <= tx.timestamp
    /\ until # None => tx.timestamp <= until[1]

\* C17: transaction_history(since, until) returns exactly the recorded
\* transactions with since <= timestamp <= until (both ends inclusive, a missing
\* bound unbounded) in the order they were recorded, and the whole log when no
\* bound is given.
C17_HistoryFilter ==
    /\ transaction_history(transactions, None, None) = transactions
    /\ \A since, until \in Timestamps :
          transaction_history(transactions, since, until)
              = SelectSeq(transactions, LAMBDA tx : InBounds(tx, since, until))

\* a range that takes two of three records, returned in the order recorded,
\* which is not their timestamp order
C17_Witness ==
    /\ Len(transactions) = MaxLog
    /\ \E since, until \in Instants :
          LET h == transaction_history(transactions, Some(since), Some(until))
          IN /\ Len(h) = 2
             /\ h[1].timestamp > h[2].timestamp
             /\ h[1].timestamp = until /\ h[2].timestamp = since

\* C18 (as claimed): after creating an account and recording operations with
\* strictly increasing explicit timestamps, transaction_history() lists all
\* records, the initial deposit first, with non-decreasing timestamps.
C18_HistoryChronological ==
    (/\ Exists
     /\ \A i \in 2..(Len(transactions) - 1) :
           transactions[i].timestamp < transactions[i + 1].timestamp)
        => LET h == transaction_history(transactions, None, None)
           IN /\ h = transactions
              /\ h[1].type = "deposit" /\ h[1].total_amount = initial_deposit
              /\ \A i \in 1..(Len(h) - 1) : h[i].timestamp <= h[i + 1].timestamp

\* cash plus the market value of the quantities held as of T, from the
\* reference sums
RECURSIVE MarketRef(_, _, _)
MarketRef(txs, T, syms) ==
    IF syms = {} THEN 0
    ELSE LET s == CHOOSE x \in syms : TRUE
         IN SumQuantity(txs, s, T) * prices[s] + MarketRef(txs, T, syms \ {s})

PortfolioRef(txs, T) == SumTotal(txs, T) + MarketRef(txs, T, DOMAIN prices)

\* C19: for every cutoff T, profit_loss(as_of=T) = portfolio_value(as_of=T)
\* - initial_deposit, where initial_deposit is the construction argument and
\* never changes; a later deposit of a raises profit_loss() by a.
C19_ProfitLossBaseline ==
    [][/\ account = "Account"
             => account' = "Account" /\ initial_deposit' = initial_deposit
       /\ account' = "Account"
             => /\ initial_deposit' = transactions'[1].total_amount
                /\ \A T \in Instants :
                      profit_loss(transactions', initial_deposit', Some(T))
                          = PortfolioRef(transactions', T) - transactions'[1].total_amount
       /\ (/\ account = "Account" /\ last'.op = "deposit" /\ last'.raised = None
           /\ transactions' # transactions)
             => profit_loss(transactions', initial_deposit', None)
                   = profit_loss(transactions, initial_deposit, None) + last'.amount]_vars

\* a deposit after the initial one was accepted and the profit is its amount
C19_Witness ==
    /\ Succeeded /\ last.op = "deposit"
    /\ \E i \in 1..Len(transactions) : transactions[i].type = "buy"
    /\ profit_loss(transactions, initial_deposit, None) = last.amount
    /\ profit_loss(before, initial_deposit, None) = 0

\* the market value of a holdings mapping at the current prices
RECURSIVE HoldingsValue(_, _)
HoldingsValue(h, syms) ==
    IF syms = {} THEN 0
    ELSE LET s == CHOOSE x \in syms : TRUE
         IN h[s] * prices[s] + HoldingsValue(h, syms \ {s})

\* C20: for every cutoff T, portfolio_value(as_of=T) = cash_balance(as_of=T)
\* plus the sum over symbols of holdings(as_of=T)[s] times the current price of
\* s, also when T is in the past.
C20_PortfolioValue ==
    Exists => \A T \in Instants :
                  LET h == holdings_of(transactions, Some(T))
                  IN /\ portfolio_value(transactions, Some(T))
                          = cash_balance(transactions, Some(T)) + HoldingsValue(h, DOMAIN h)
                     /\ portfolio_value(transactions, Some(T)) = PortfolioRef(transactions, T)

\* a past cutoff at which shares were held and the value differs from today's
C20_Witness ==
    /\ Exists
    /\ \E T \in Instants :
          /\ T < latest_timestamp(transactions)
          /\ holdings_of(transactions, Some(T)) # <<>>
          /\ portfolio_value(transactions, Some(T)) # cash_balance(transactions, Some(T))
          /\ portfolio_value(transactions, Some(T)) # portfolio_value(transactions, None)

\* C21: a query without as_of replays up to the greatest timestamp in the log,
\* by value and not the timestamp inserted last: cash_balance() is the sum of
\* total_amount over the whole log, and holdings(), portfolio_value() and
\* profit_loss() are their values as of that greatest timestamp.
C21_DefaultCutoffIsGreatestTimestamp ==
    Exists =>
        /\ cash_balance(transactions, None) = SumTotal(transactions, MaxTime)
        /\ \A G \in Instants :
              (/\ \E i \in 1..Len(transactions) : transactions[i].timestamp = G
               /\ \A i \in 1..Len(transactions) : transactions[i].timestamp <= G)
              => /\ cash_balance(transactions, None) = cash_balance(transactions, Some(G))
                 /\ holdings_of(transactions, None) = holdings_of(transactions, Some(G))
                 /\ portfolio_value(transactions, None)
                        = portfolio_value(transactions, Some(G))
                 /\ profit_loss(transactions, initial_deposit, None)
                        = profit_loss(transactions, initial_deposit, Some(G))

\* the record inserted last carries a timestamp below the greatest one, and the
\* cash as of that last-inserted timestamp is not the cash of the whole log
C21_Witness ==
    /\ Exists /\ Succeeded /\ Len(transactions) >= 2
    /\ \E i \in 1..Len(transactions) :
          transactions[i].timestamp > transactions[Len(transactions)].timestamp
    /\ cash_balance(transactions, Some(transactions[Len(transactions)].timestamp))
          # SumTotal(transactions, MaxTime)
    /\ cash_balance(transactions, None) = SumTotal(transactions, MaxTime)
    /\ \E s \in Symbols : dict_get(holdings_of(transactions, None), s) > 0

\* C25: while every record was inserted with a timestamp not earlier than
\* all timestamps already in the log, the replayed cash and the replayed
\* holdings of every symbol are non-negative as of every cutoff T, and
\* cash_balance() is non-negative.
C25_MonotoneLogNeverNegative ==
    (Exists /\ ~OutOfOrder) =>
        /\ \A T \in Instants :
              /\ cash_balance(transactions, Some(T)) >= 0
              /\ SumTotal(transactions, T) >= 0
              /\ \A s \in AllSymbols :
                    /\ dict_get(holdings_of(transactions, Some(T)), s) >= 0
                    /\ SumQuantity(transactions, s, T) >= 0
        /\ cash_balance(transactions, None) >= 0

\* a full log with strictly increasing timestamps in which a withdrawal and a
\* purchase, the call just accepted being one of them, have used up the cash
\* exactly
C25_Witness ==
    /\ Exists /\ ~OutOfOrder /\ Len(transactions) = MaxLog
    /\ \A i, j \in 1..Len(transactions) :
          i < j => transactions[i].timestamp < transactions[j].timestamp
    /\ \E i, j \in 1..Len(transactions) :
          transactions[i].type = "withdraw" /\ transactions[j].type = "buy"
    /\ cash_balance(transactions, None) = 0
    /\ last.op \in {"withdraw", "buy"} /\ Succeeded
    /\ \E T \in Instants : cash_balance(transactions, Some(T)) > 0

\* C23: with two mutations running at once, each replay-validate-append is
\* atomic with respect to the other: a withdraw or buy is accepted only if the
\* log it is appended to covers it as of its timestamp, and, timestamps being
\* in insertion order, no interleaving leaves the cash or the holdings of a
\* symbol negative as of any cutoff.
C23_ReplayValidateAppendAtomic ==
    /\ (Succeeded /\ last.op \in {"withdraw", "buy"})
          => SumTotal(before, last.ts) + transactions[Len(transactions)].total_amount >= 0
    /\ (Exists /\ ~OutOfOrder)
          => \A T \in Instants :
                /\ SumTotal(transactions, T) >= 0
                /\ \A s \in AllSymbols : SumQuantity(transactions, s, T) >= 0

\* what the query op returns for args on the log txs
QueryValue(op, args, txs, baseline) ==
    CASE op = "cash_balance" -> <<cash_balance(txs, args)>>
      [] op = "holdings" -> <<holdings_of(txs, args)>>
      [] op = "portfolio_value" -> <<portfolio_value(txs, args)>>
      [] op = "profit_loss" -> <<profit_loss(txs, baseline, args)>>
      [] op = "transaction_history" -> transaction_history(txs, args[1], args[2])

ReplayQueries == Queries \ {"transaction_history"}

\* C24: a datetime without tzinfo is taken as UTC wherever one is accepted: a
\* mutation called with one records the same clock reading as a UTC instant,
\* a replaying query called with one returns what it returns for the same
\* reading in UTC, and transaction_history called with one as since or until
\* selects as for the same reading in UTC; none of them raises because of it.
C24_NaiveTimestampsAreUTC ==
    /\ (Succeeded /\ last.timestamp \in NaiveTimestamps)
          => transactions[Len(transactions)].timestamp = last.timestamp[1]
    /\ (last.op \in Mutations \cup ReplayQueries /\ last.timestamp \in NaiveTimestamps)
          => last.raised # Some("TypeError")
    /\ Exists =>
          \A n \in NaiveTimestamps :
              /\ cash_balance(transactions, n) = cash_balance(transactions, Some(n[1]))
              /\ holdings_of(transactions, n) = holdings_of(transactions, Some(n[1]))
              /\ portfolio_value(transactions, n) = portfolio_value(transactions, Some(n[1]))
    /\ last.op = "transaction_history" => last.raised = None

\* the same of the mutations and of the replaying queries alone, which holds
NaiveTimestampsAreUTCWhereReplayed ==
    /\ (Succeeded /\ last.timestamp \in NaiveTimestamps)
          => transactions[Len(transactions)].timestamp = last.timestamp[1]
    /\ (last.op \in Mutations \cup ReplayQueries /\ last.timestamp \in NaiveTimestamps)
          => last.raised # Some("TypeError")
    /\ Exists =>
          \A n \in NaiveTimestamps :
              /\ cash_balance(transactions, n) = SumTotal(transactions, n[1])
              /\ holdings_of(transactions, n) = holdings_of(transactions, Some(n[1]))
              /\ portfolio_value(transactions, n) = portfolio_value(transactions, Some(n[1]))
====
